---- MODULE Spec2Model ----
(***************************************************************************)
(* member_loader: the streaming parser parse_addresses_xml, the party      *)
(* history consolidator merge_parties, and main's hand-over of the parsed  *)
(* collection to commit_member_data (src/member_loader/src/main.rs).       *)
(*                                                                         *)
(* Rust's Option<T> is a sequence of length 0 (None) or 1 (Some(x)).       *)
(* A DateTime<Utc> is its timestamp() in seconds.                          *)
(***************************************************************************)
EXTENDS Integers, Sequences, FiniteSets, TLC

VARIABLES
    \* parse_addresses_xml locals
    members,            \* Option<Members>
    member,             \* Option<Member>
    address,            \* Option<Address>
    party,              \* Option<Party>
    current_element,    \* Element
    previous_elements,  \* Vec<Element>
    \* the tokenizer (EventReader) and the document it reads
    open_tags,          \* the elements open at this point, outermost first: each its
                        \* name and the position (`at`) its start-tag was met at
    tok,                \* "prolog" | "content" | "epilog" | "error"
    nevents,            \* start-tags delivered so far
    top_closed,         \* Member elements opened at members-list and closed since
    blk,                \* the Member block open at members-list: "none" (not in one),
                        \* "no_addresses" | "addresses" (an <Addresses> start-tag was
                        \* met inside it)
    \* control
    status,             \* "parsing" | "returned" | "committed" | "panicked"
    failure,            \* which panic ended the run ("" when none)
    result,             \* what parse_addresses_xml returned: Option<Members>
    committed,          \* the MemberObjects main handed to txn.mutate
    \* one run of the consolidator on a free-standing list
    raw,                \* the list as collected, before the sort
    work,               \* merge_parties' local `parties`
    out,                \* merge_parties' local `out`
    sorted,             \* merge_parties' argument: the list after sort_by
    ret,                \* what merge_parties returned
    round,              \* 1: first run on the list; 2: run on the first run's output
    branch,             \* the match arm the last loop iteration took
    iters,              \* loop iterations done
    cpc                 \* "sort" | "enter" | "loop" | "done" | "idle"

parser_vars == <<members, member, address, party, current_element, previous_elements,
                 open_tags, tok, nevents, top_closed, blk, status, failure, result,
                 committed>>
merge_vars == <<raw, sorted, work, out, ret, round, branch, iters, cpc>>
vars == <<parser_vars, merge_vars>>

----------------------------------------------------------------------------
\* Bounds of the model.

\* start-tags in one document
MaxEvents == 6
\* length of a free-standing list given to the consolidator
MaxLen == 3

----------------------------------------------------------------------------
\* Option<T>

None == <<>>
Some(x) == <<x>>
unwrap(o) == o[1]

\* Vec::pop: the vector without its last element
pop_rest(v) == SubSeq(v, 1, Len(v) - 1)
last(v) == v[Len(v)]

----------------------------------------------------------------------------
\* Data types

Member_new ==
    [id |-> 0, name |-> "", party |-> "", house |-> "Unknown", constituency |-> "",
     twitter |-> None, facebook |-> None, parties |-> <<>>]

Party_new(now) == [name |-> "", start_date |-> now, end_date |-> None]

Address_new == [addr_type |-> "", address |-> ""]

Members_new == [members |-> <<>>]

----------------------------------------------------------------------------
\* History consolidator

\* Vec::sort_by on start_date.timestamp(): a stable sort, so p goes after every
\* element whose timestamp is not greater than its own
RECURSIVE insert_by_start_date(_, _)
insert_by_start_date(v, p) ==
    IF v = <<>> THEN <<p>>
    ELSE IF last(v).start_date <= p.start_date THEN Append(v, p)
    ELSE Append(insert_by_start_date(pop_rest(v), p), last(v))

RECURSIVE sort_by_start_date(_)
sort_by_start_date(v) ==
    IF v = <<>> THEN <<>>
    ELSE insert_by_start_date(sort_by_start_date(pop_rest(v)), last(v))

\* merge_iter with the merged interval's end_date taken from b, the earlier interval
merge_iter_end_of_b(ps, o) ==
    LET a   == IF ps = <<>> THEN None ELSE Some(last(ps))
        ps1 == IF ps = <<>> THEN ps ELSE pop_rest(ps)
        b   == IF ps1 = <<>> THEN None ELSE Some(last(ps1))
        ps2 == IF ps1 = <<>> THEN ps1 ELSE pop_rest(ps1)
    IN  IF a # None /\ b # None
        THEN IF unwrap(a).name = unwrap(b).name
             THEN [parties |-> Append(ps2, [name |-> unwrap(a).name,
                                            start_date |-> unwrap(b).start_date,
                                            end_date |-> unwrap(b).end_date]),
                   out |-> o, returned |-> FALSE, branch |-> "Some_Some"]
             ELSE [parties |-> Append(ps2, unwrap(b)), out |-> Append(o, unwrap(a)),
                   returned |-> FALSE, branch |-> "Some_Some"]
        ELSE IF a # None
        THEN [parties |-> ps2, out |-> Append(o, unwrap(a)),
              returned |-> TRUE, branch |-> "Some_None"]
        ELSE [parties |-> ps2, out |-> o, returned |-> TRUE, branch |-> "None_None"]

\* merge_iter with the else arm's parties.push(b) left out: b is lost
merge_iter_drops_b(ps, o) ==
    LET a   == IF ps = <<>> THEN None ELSE Some(last(ps))
        ps1 == IF ps = <<>> THEN ps ELSE pop_rest(ps)
        b   == IF ps1 = <<>> THEN None ELSE Some(last(ps1))
        ps2 == IF ps1 = <<>> THEN ps1 ELSE pop_rest(ps1)
    IN  IF a # None /\ b # None
        THEN IF unwrap(a).name = unwrap(b).name
             THEN [parties |-> Append(ps2, [name |-> unwrap(a).name,
                                            start_date |-> unwrap(b).start_date,
                                            end_date |-> unwrap(a).end_date]),
                   out |-> o, returned |-> FALSE, branch |-> "Some_Some"]
             ELSE [parties |-> ps2, out |-> Append(o, unwrap(a)),
                   returned |-> FALSE, branch |-> "Some_Some"]
        ELSE IF a # None
        THEN [parties |-> ps2, out |-> Append(o, unwrap(a)),
              returned |-> TRUE, branch |-> "Some_None"]
        ELSE [parties |-> ps2, out |-> o, returned |-> TRUE, branch |-> "None_None"]

\* One iteration of merge_parties' loop on (parties, out): the two pops and the
\* match on (a, b).  returned: the iteration ended in `return out`.
merge_iter(ps, o) ==
    LET a   == IF ps = <<>> THEN None ELSE Some(last(ps))
        ps1 == IF ps = <<>> THEN ps ELSE pop_rest(ps)
        b   == IF ps1 = <<>> THEN None ELSE Some(last(ps1))
        ps2 == IF ps1 = <<>> THEN ps1 ELSE pop_rest(ps1)
    IN  IF a # None /\ b # None
        THEN IF unwrap(a).name = unwrap(b).name
             THEN [parties |-> Append(ps2, [name |-> unwrap(a).name,
                                            start_date |-> unwrap(b).start_date,
                                            end_date |-> unwrap(a).end_date]),
                   out |-> o, returned |-> FALSE, branch |-> "Some_Some"]
             ELSE [parties |-> Append(ps2, unwrap(b)), out |-> Append(o, unwrap(a)),
                   returned |-> FALSE, branch |-> "Some_Some"]
        ELSE IF a # None
        THEN [parties |-> ps2, out |-> Append(o, unwrap(a)),
              returned |-> TRUE, branch |-> "Some_None"]
        ELSE IF b = None
        THEN [parties |-> ps2, out |-> o, returned |-> TRUE, branch |-> "None_None"]
        ELSE [parties |-> ps2, out |-> o, returned |-> TRUE, branch |-> "None_Some"]

\* merge_parties' loop, run to its return
RECURSIVE merge_loop(_, _)
merge_loop(ps, o) ==
    LET r == merge_iter(ps, o)
    IN  IF r.returned THEN r.out ELSE merge_loop(r.parties, r.out)

merge_parties(parties) ==
    IF Len(parties) < 2 THEN parties ELSE merge_loop(parties, <<>>)

\* what closing a Parties block does to member.parties
consolidate(parties) == merge_parties(sort_by_start_date(parties))

----------------------------------------------------------------------------
\* The document: what the tokenizer can deliver

TagNames ==
    {"Members", "Member", "Addresses", "Address", "Type", "Address1", "Parties",
     "Party", "Name", "StartDate", "EndDate", "DisplayAs", "House", "MemberFrom", "Foo"}

\* names an end-tag is dispatched on
EndTagNames == {"Member", "Address", "Party", "Parties"}

\* attribute lists of a start-tag
AttributeLists ==
    {<<>>,
     <<[name |-> "Member_Id", value |-> "1"]>>,
     <<[name |-> "Member_Id", value |-> "x"]>>,
     <<[name |-> "nil", value |-> "true"]>>}

\* text nodes a document holds at a position
TextsAt(cur) ==
    CASE cur \in {"AddrType"} -> {"Twitter", "twitter", "Facebook"}
      [] cur \in {"PartyStartDate", "PartyEndDate"} ->
            {"2001-01-01T00:00:00", "2010-01-01T00:00:00", "soon"}
      [] cur = "House" -> {"Commons", "A"}
      [] OTHER -> {"A"}

\* str::parse::<u32>: the value, or None where parse returns Err
U32Table == ("1" :> 1) @@ ("2" :> 2)
parse_u32(s) == IF s \in DOMAIN U32Table THEN Some(U32Table[s]) ELSE None

\* str::parse::<DateTime<Utc>>: the timestamp, or None where parse returns Err
DateTable ==
    ("2001-01-01T00:00:00Z" :> 978307200) @@ ("2005-01-01T00:00:00Z" :> 1104537600)
    @@ ("2010-01-01T00:00:00Z" :> 1262304000)
parse_datetime(s) == IF s \in DOMAIN DateTable THEN Some(DateTable[s]) ELSE None

\* Utc::now().timestamp(): the second the call falls in
NowValues == {1577836800, 1577836801}

----------------------------------------------------------------------------
\* Streaming parser

\* a start-tag dispatched on its name alone, whatever the position
start_target_by_name(cur, name) ==
    CASE name = "Members" -> "Members"
      [] name = "Member" -> "Member"
      [] name = "Addresses" -> "Addresses"
      [] name = "Parties" -> "Parties"
      [] name = "DisplayAs" -> "Name"
      [] name = "House" -> "House"
      [] name = "MemberFrom" -> "Constituency"
      [] name = "Address" -> "Address"
      [] name = "Type" -> "AddrType"
      [] name = "Address1" -> "AddressLine1"
      [] name = "Party" -> "Party"
      [] name = "Name" -> "PartyPartyName"
      [] name = "StartDate" -> "PartyStartDate"
      [] name = "EndDate" -> "PartyEndDate"
      [] OTHER -> "Other"

\* The position a start-tag moves to: the if/else-if chain over current_element
\* and name.local_name, falling through to Element::Other.  The EndDate arm's loop
\* over the attributes only `continue`s that loop: nil="true" changes nothing.
start_target(cur, name) ==
    CASE cur = "None" /\ name = "Members" -> "Members"
      [] cur = "Members" /\ name = "Member" -> "Member"
      [] cur = "Member" /\ name = "Addresses" -> "Addresses"
      [] cur = "Member" /\ name = "Parties" -> "Parties"
      [] cur = "Member" /\ name = "DisplayAs" -> "Name"
      [] cur = "Member" /\ name = "Party" -> "PartyName"
      [] cur = "Member" /\ name = "House" -> "House"
      [] cur = "Member" /\ name = "MemberFrom" -> "Constituency"
      [] cur = "Addresses" /\ name = "Address" -> "Address"
      [] cur = "Address" /\ name = "Type" -> "AddrType"
      [] cur = "Address" /\ name = "Address1" -> "AddressLine1"
      [] cur = "Parties" /\ name = "Party" -> "Party"
      [] cur = "Party" /\ name = "Name" -> "PartyPartyName"
      [] cur = "Party" /\ name = "StartDate" -> "PartyStartDate"
      [] cur = "Party" /\ name = "EndDate" -> "PartyEndDate"
      [] OTHER -> "Other"

\* Start-tags a document holds at a position: the names the position recognises,
\* the names an end-tag is dispatched on, and Foo for every other name (which
\* all move to Other and are dispatched nowhere)
TagsAt(cur) ==
    {name \in TagNames :
        start_target(cur, name) # "Other" \/ name \in EndTagNames \/ name = "Foo"}

\* a Member_Id reading that falls back to id 0 where the attribute is missing or is
\* no number
member_id_defaults(attributes) ==
    LET is_id(a) == a.name = "Member_Id" /\ parse_u32(a.value) # None
        ids == SelectSeq(attributes, is_id)
    IN  [failure |-> "",
         id |-> IF ids = <<>> THEN 0 ELSE unwrap(parse_u32(last(ids).value))]

\* The Member_Id loop and id.unwrap(): the id, or the panic that ends the run
member_id(attributes) ==
    LET is_id(a) == a.name = "Member_Id"
        ids == SelectSeq(attributes, is_id)
    IN  IF \E i \in 1..Len(ids) : parse_u32(ids[i].value) = None
        THEN [failure |-> "unwrap_err_Member_Id", id |-> 0]
        ELSE IF ids = <<>>
        THEN [failure |-> "unwrap_none_Member_Id", id |-> 0]
        ELSE [failure |-> "", id |-> unwrap(parse_u32(last(ids).value))]

\* a House mapping whose fallback is Commons
house_of_defaults_commons(data) ==
    CASE data = "Lords" -> "Lords"
      [] OTHER -> "Commons"

\* data.as_str() mapped to a House
house_of(data) ==
    CASE data = "Commons" -> "Commons"
      [] data = "Lords" -> "Lords"
      [] OTHER -> "Unknown"

\* parse_addresses_xml's locals and the tokenizer go out of scope
DropLocals ==
    /\ members' = None
    /\ member' = None
    /\ address' = None
    /\ party' = None
    /\ current_element' = "None"
    /\ previous_elements' = <<>>
    /\ open_tags' = <<>>
    /\ nevents' = 0

\* a panic: the process ends, nothing is returned
Panic(kind) ==
    /\ status' = "panicked"
    /\ failure' = kind
    /\ DropLocals
    /\ UNCHANGED <<tok, top_closed, blk, result, committed>>

\* a start-tag handler in which a nil="true" attribute sends the element to the
\* position other
StartElement_nil_skips(name, attributes) ==
    LET nil == \E i \in 1..Len(attributes) :
                   attributes[i] = [name |-> "nil", value |-> "true"]
        tgt == IF nil THEN "Other" ELSE start_target(current_element, name)
        mid == member_id(attributes)
    IN  /\ status = "parsing"
        /\ tok \in {"prolog", "content"}
        /\ nevents < MaxEvents
        /\ IF tgt = "Member" /\ mid.failure # ""
           THEN Panic(mid.failure)
           ELSE /\ previous_elements' = Append(previous_elements, current_element)
                /\ current_element' = tgt
                /\ open_tags' = Append(open_tags, [name |-> name, at |-> current_element])
                /\ blk' = IF tgt = "Member" THEN "no_addresses"
                          ELSE IF name = "Addresses" /\ blk # "none" THEN "addresses"
                          ELSE blk
                /\ tok' = "content"
                /\ members' = IF tgt = "Members" THEN Some(Members_new) ELSE members
                /\ member' = IF tgt = "Member"
                             THEN Some([Member_new EXCEPT !.id = mid.id])
                             ELSE member
                /\ address' = IF tgt = "Address" THEN Some(Address_new) ELSE address
                /\ IF tgt = "Party"
                   THEN \E now \in NowValues : party' = Some(Party_new(now))
                   ELSE UNCHANGED party
                /\ nevents' = nevents + 1
                /\ UNCHANGED <<top_closed, status, failure, result, committed>>

\* Ok(XmlEvent::StartElement { name, attributes, .. }).  The tokenizer's side:
\* the element is open from here on; blk records an <Addresses> start-tag met
\* inside a Member block.
StartElement(name, attributes) ==
    LET tgt == start_target(current_element, name)
        mid == member_id(attributes)
    IN  /\ status = "parsing"
        /\ tok \in {"prolog", "content"}
        /\ nevents < MaxEvents
        /\ IF tgt = "Member" /\ mid.failure # ""
           THEN Panic(mid.failure)
           ELSE /\ previous_elements' = Append(previous_elements, current_element)
                /\ current_element' = tgt
                /\ open_tags' = Append(open_tags, [name |-> name, at |-> current_element])
                /\ blk' = IF tgt = "Member" THEN "no_addresses"
                          ELSE IF name = "Addresses" /\ blk # "none" THEN "addresses"
                          ELSE blk
                /\ tok' = "content"
                /\ members' = IF tgt = "Members" THEN Some(Members_new) ELSE members
                /\ member' = IF tgt = "Member"
                             THEN Some([Member_new EXCEPT !.id = mid.id])
                             ELSE member
                /\ address' = IF tgt = "Address" THEN Some(Address_new) ELSE address
                /\ IF tgt = "Party"
                   THEN \E now \in NowValues : party' = Some(Party_new(now))
                   ELSE UNCHANGED party
                /\ nevents' = nevents + 1
                /\ UNCHANGED <<top_closed, status, failure, result, committed>>

\* an end-tag that reads the top of previous_elements without popping it
PopPosition_peeks ==
    /\ current_element' = IF previous_elements = <<>> THEN "None"
                          ELSE last(previous_elements)
    /\ previous_elements' = previous_elements
    /\ open_tags' = pop_rest(open_tags)
    /\ tok' = IF Len(open_tags) = 1 THEN "epilog" ELSE tok
    /\ top_closed' = IF last(open_tags) = [name |-> "Member", at |-> "Members"]
                     THEN top_closed + 1 ELSE top_closed
    /\ blk' = IF last(open_tags) = [name |-> "Member", at |-> "Members"]
              THEN "none" ELSE blk
    /\ UNCHANGED <<nevents, status, failure, result, committed>>

\* previous_elements.pop(), and the tokenizer leaving the element (top_closed and
\* blk record a Member element, opened at members-list, closing)
PopPosition ==
    /\ current_element' = IF previous_elements = <<>> THEN "None"
                          ELSE last(previous_elements)
    /\ previous_elements' = IF previous_elements = <<>> THEN <<>>
                            ELSE pop_rest(previous_elements)
    /\ open_tags' = pop_rest(open_tags)
    /\ tok' = IF Len(open_tags) = 1 THEN "epilog" ELSE tok
    /\ top_closed' = IF last(open_tags) = [name |-> "Member", at |-> "Members"]
                     THEN top_closed + 1 ELSE top_closed
    /\ blk' = IF last(open_tags) = [name |-> "Member", at |-> "Members"]
              THEN "none" ELSE blk
    /\ UNCHANGED <<nevents, status, failure, result, committed>>

\* fold_address with the type compared without regard to case
fold_address_ignores_case(m, a) ==
    CASE a.addr_type \in {"Twitter", "twitter"} -> [m EXCEPT !.twitter = Some(a.address)]
      [] a.addr_type \in {"Facebook", "facebook"} -> [m EXCEPT !.facebook = Some(a.address)]
      [] OTHER -> m

\* The twitter/facebook fields after an Address block closes
fold_address(m, a) ==
    CASE a.addr_type = "Twitter" -> [m EXCEPT !.twitter = Some(a.address)]
      [] a.addr_type = "Facebook" -> [m EXCEPT !.facebook = Some(a.address)]
      [] OTHER -> m

\* Ok(XmlEvent::EndElement { name })
EndElement ==
    /\ status = "parsing"
    /\ open_tags # <<>>
    /\ LET name == last(open_tags).name
       IN  IF name = "Member"
           THEN IF members = None THEN Panic("unreachable_members")
                ELSE IF member = None THEN Panic("unwrap_none_member")
                ELSE /\ members' = Some([members |->
                                          Append(unwrap(members).members, unwrap(member))])
                     /\ UNCHANGED <<member, address, party>>
                     /\ PopPosition
           ELSE IF name = "Address"
           THEN IF member = None THEN Panic("unreachable_member")
                ELSE IF address = None THEN Panic("unreachable_address")
                ELSE /\ member' = Some(fold_address(unwrap(member), unwrap(address)))
                     /\ UNCHANGED <<members, address, party>>
                     /\ PopPosition
           ELSE IF name = "Party" /\ current_element = "Party"
           THEN IF member = None THEN Panic("unreachable_member")
                ELSE IF party = None THEN Panic("unreachable_party")
                ELSE /\ member' = Some([unwrap(member) EXCEPT
                                          !.parties = Append(@, unwrap(party))])
                     /\ UNCHANGED <<members, address, party>>
                     /\ PopPosition
           ELSE IF name = "Parties" /\ current_element = "Parties"
           THEN IF member = None THEN Panic("unreachable_member")
                ELSE /\ member' = Some([unwrap(member) EXCEPT
                                          !.parties = consolidate(@)])
                     /\ UNCHANGED <<members, address, party>>
                     /\ PopPosition
           ELSE /\ UNCHANGED <<members, member, address, party>>
                /\ PopPosition

\* positions whose text is stored in a record
FieldPositions ==
    {"Name", "PartyName", "Constituency", "House", "AddrType", "AddressLine1",
     "PartyPartyName", "PartyStartDate", "PartyEndDate"}

\* The scratch slots after a text event that panics nowhere
SetSlots(m, a, p) ==
    /\ member' = m
    /\ address' = a
    /\ party' = p
    /\ UNCHANGED <<members, current_element, previous_elements, open_tags, tok,
                   nevents, top_closed, blk, status, failure, result, committed>>

\* a text event that stores the epoch for an unparsable date text and lets the parse
\* go on (fields other than the dates are left out)
Characters_defaults_bad_date(data) ==
    /\ status = "parsing"
    /\ tok = "content"
    /\ IF current_element \in {"PartyStartDate", "PartyEndDate"} /\ party # None
       THEN LET d == IF parse_datetime(data \o "Z") = None THEN 0
                     ELSE unwrap(parse_datetime(data \o "Z"))
            IN  SetSlots(member, address,
                         Some(IF current_element = "PartyStartDate"
                              THEN [unwrap(party) EXCEPT !.start_date = d]
                              ELSE [unwrap(party) EXCEPT !.end_date = Some(d)]))
       ELSE SetSlots(member, address, party)

\* Ok(XmlEvent::Characters(data))
Characters(data) ==
    /\ status = "parsing"
    /\ tok = "content"
    /\ CASE current_element \in {"None", "Other", "Members", "Member", "Addresses",
                                 "Address", "Parties", "Party"} ->
                SetSlots(member, address, party)
         [] current_element = "Name" ->
                IF member = None THEN Panic("unreachable_member")
                ELSE SetSlots(Some([unwrap(member) EXCEPT !.name = data]), address, party)
         [] current_element = "PartyName" ->
                IF member = None THEN Panic("unreachable_member")
                ELSE SetSlots(Some([unwrap(member) EXCEPT !.party = data]), address, party)
         [] current_element = "Constituency" ->
                IF member = None THEN Panic("unreachable_member")
                ELSE SetSlots(Some([unwrap(member) EXCEPT !.constituency = data]),
                              address, party)
         [] current_element = "House" ->
                IF member = None THEN Panic("unreachable_member")
                ELSE SetSlots(Some([unwrap(member) EXCEPT !.house = house_of(data)]),
                              address, party)
         [] current_element = "AddrType" ->
                IF address = None THEN Panic("unreachable_address")
                ELSE SetSlots(member, Some([unwrap(address) EXCEPT !.addr_type = data]),
                              party)
         [] current_element = "AddressLine1" ->
                IF address = None THEN Panic("unreachable_address")
                ELSE SetSlots(member, Some([unwrap(address) EXCEPT !.address = data]),
                              party)
         [] current_element = "PartyPartyName" ->
                IF party = None THEN Panic("unreachable_party")
                ELSE SetSlots(member, address, Some([unwrap(party) EXCEPT !.name = data]))
         [] current_element = "PartyStartDate" ->
                IF party = None THEN Panic("unreachable_party")
                ELSE IF parse_datetime(data \o "Z") = None THEN Panic("panic_date")
                ELSE SetSlots(member, address,
                              Some([unwrap(party) EXCEPT
                                      !.start_date = unwrap(parse_datetime(data \o "Z"))]))
         [] current_element = "PartyEndDate" ->
                IF party = None THEN Panic("unreachable_party")
                ELSE IF parse_datetime(data \o "Z") = None THEN Panic("panic_date")
                ELSE SetSlots(member, address,
                              Some([unwrap(party) EXCEPT
                                      !.end_date = Some(unwrap(parse_datetime(data \o "Z")))]))

\* Any other event (StartDocument, Whitespace, Comment, ...): the `_ => {}` arm
OtherEvent ==
    /\ status = "parsing"
    /\ UNCHANGED parser_vars

\* Err(e): the loop breaks and the function returns `members`
TokenizerError ==
    /\ status = "parsing"
    /\ tok' = "error"
    /\ result' = members
    /\ status' = "returned"
    /\ DropLocals
    /\ UNCHANGED <<top_closed, blk, failure, committed>>

\* The iterator ends after the root element has closed; the function returns `members`
EndOfDocument ==
    /\ status = "parsing"
    /\ tok = "epilog"
    /\ result' = members
    /\ status' = "returned"
    /\ DropLocals
    /\ UNCHANGED <<tok, top_closed, blk, failure, committed>>

\* commit_member_data's MemberObject for one member
MemberObject(m) == [uid |-> "_:" \o ToString(m.id), name |-> m.name]

\* main: parse_addresses_xml(..).unwrap(), then commit_member_data
Main ==
    /\ status = "returned"
    /\ IF result = None
       THEN /\ status' = "panicked"
            /\ failure' = "unwrap_none_result"
            /\ UNCHANGED <<members, member, address, party, current_element,
                           previous_elements, open_tags, tok, nevents, top_closed, blk,
                           result, committed>>
       ELSE /\ committed' = [i \in 1..Len(unwrap(result).members) |->
                                MemberObject(unwrap(result).members[i])]
            /\ status' = "committed"
            /\ UNCHANGED <<members, member, address, party, current_element,
                           previous_elements, open_tags, tok, nevents, top_closed, blk,
                           failure, result>>

ParserInit ==
    /\ members = None
    /\ member = None
    /\ address = None
    /\ party = None
    /\ current_element = "None"
    /\ previous_elements = <<>>
    /\ open_tags = <<>>
    /\ tok = "prolog"
    /\ nevents = 0
    /\ top_closed = 0
    /\ blk = "none"
    /\ status = "parsing"
    /\ failure = ""
    /\ result = None
    /\ committed = <<>>

MergeIdle ==
    /\ raw = <<>>
    /\ sorted = <<>>
    /\ work = <<>>
    /\ out = <<>>
    /\ ret = <<>>
    /\ round = 0
    /\ branch = ""
    /\ iters = 0
    /\ cpc = "idle"

Init == ParserInit /\ MergeIdle

Next ==
    \/ \E name \in TagsAt(current_element), attributes \in AttributeLists :
            StartElement(name, attributes) /\ UNCHANGED merge_vars
    \/ EndElement /\ UNCHANGED merge_vars
    \/ \E data \in TextsAt(current_element) : Characters(data) /\ UNCHANGED merge_vars
    \/ OtherEvent /\ UNCHANGED merge_vars
    \/ TokenizerError /\ UNCHANGED merge_vars
    \/ EndOfDocument /\ UNCHANGED merge_vars
    \/ Main /\ UNCHANGED merge_vars

Spec == Init /\ [][Next]_vars

----------------------------------------------------------------------------
\* The consolidator on a free-standing list: sort_by, then merge_parties one loop
\* iteration at a time, then once more on its own output

\* intervals a raw list is drawn from
PartyValues ==
    [name : {"A", "B"},
     start_date : {DateTable[k] : k \in DOMAIN DateTable},
     end_date : {None, Some(DateTable["2005-01-01T00:00:00Z"])}]

RawLists == UNION {[1..n -> PartyValues] : n \in 0..MaxLen}

\* member.parties.sort_by(..)
SortParties ==
    /\ cpc = "sort"
    /\ sorted' = sort_by_start_date(raw)
    /\ cpc' = "enter"
    /\ UNCHANGED <<raw, work, out, ret, round, branch, iters>>

\* MergeEnter with the early return giving back an empty vector
MergeEnter_returns_empty ==
    /\ cpc = "enter"
    /\ work' = sorted
    /\ IF Len(sorted) < 2
       THEN /\ ret' = <<>>
            /\ cpc' = "done"
            /\ UNCHANGED out
       ELSE /\ out' = <<>>
            /\ cpc' = "loop"
            /\ UNCHANGED ret
    /\ UNCHANGED <<raw, sorted, round, branch, iters>>

\* merge_parties up to its loop: the clone and the early return
MergeEnter ==
    /\ cpc = "enter"
    /\ work' = sorted
    /\ IF Len(sorted) < 2
       THEN /\ ret' = sorted
            /\ cpc' = "done"
            /\ UNCHANGED out
       ELSE /\ out' = <<>>
            /\ cpc' = "loop"
            /\ UNCHANGED ret
    /\ UNCHANGED <<raw, sorted, round, branch, iters>>

\* one iteration of merge_parties' loop
MergeIter ==
    /\ cpc = "loop"
    /\ LET r == merge_iter(work, out)
       IN  /\ work' = r.parties
           /\ out' = r.out
           /\ branch' = r.branch
           /\ iters' = iters + 1
           /\ IF r.returned
              THEN ret' = r.out /\ cpc' = "done"
              ELSE UNCHANGED <<ret, cpc>>
    /\ UNCHANGED <<raw, sorted, round>>

\* the consolidator given its own output
Reconsolidate ==
    /\ cpc = "done"
    /\ round = 1
    /\ raw' = ret
    /\ round' = 2
    /\ sorted' = <<>>
    /\ work' = <<>>
    /\ out' = <<>>
    /\ ret' = <<>>
    /\ branch' = ""
    /\ iters' = 0
    /\ cpc' = "sort"

ParserOff ==
    /\ members = None
    /\ member = None
    /\ address = None
    /\ party = None
    /\ current_element = "None"
    /\ previous_elements = <<>>
    /\ open_tags = <<>>
    /\ tok = "prolog"
    /\ nevents = 0
    /\ top_closed = 0
    /\ blk = "none"
    /\ status = "off"
    /\ failure = ""
    /\ result = None
    /\ committed = <<>>

InitConsolidate ==
    /\ ParserOff
    /\ raw \in RawLists
    /\ sorted = <<>>
    /\ work = <<>>
    /\ out = <<>>
    /\ ret = <<>>
    /\ round = 1
    /\ branch = ""
    /\ iters = 0
    /\ cpc = "sort"

NextConsolidate ==
    \/ SortParties /\ UNCHANGED parser_vars
    \/ MergeEnter /\ UNCHANGED parser_vars
    \/ MergeIter /\ UNCHANGED parser_vars
    \/ Reconsolidate /\ UNCHANGED parser_vars

SpecConsolidate == InitConsolidate /\ [][NextConsolidate]_vars

\* intervals for the runs whose termination is checked: the loop compares names
\* only, so open-ended intervals of two start dates stand for all
TerminationValues ==
    {p \in PartyValues :
        p.end_date = None /\ p.start_date # DateTable["2005-01-01T00:00:00Z"]}

InitTermination ==
    /\ InitConsolidate
    /\ \A i \in 1..Len(raw) : raw[i] \in TerminationValues

\* the consolidator as the program runs it: a call that can take a step takes it
SpecConsolidateFair ==
    InitTermination /\ [][NextConsolidate]_vars /\ WF_vars(NextConsolidate)

\* the stepwise run returns what merge_parties returns
StepwiseAgrees == cpc = "done" => ret = consolidate(raw) /\ ret = merge_parties(sorted)

----------------------------------------------------------------------------
\* Claims

\* the records of the output collection, in the parser's hands or returned
records_of(o) == IF o = None THEN <<>> ELSE unwrap(o).members
OutputRecords ==
    {records_of(members)[i] : i \in 1..Len(records_of(members))}
    \cup {records_of(result)[i] : i \in 1..Len(records_of(result))}

\* failures of the parser's internal invariants: its unreachable!() arms and its
\* unwrap of an absent member
InvariantFailures ==
    {"unreachable_members", "unwrap_none_member", "unreachable_member",
     "unreachable_address", "unreachable_party"}

\* first indices of the maximal runs of equal names in a list
RunStarts(s) == {i \in 1..Len(s) : i = 1 \/ s[i - 1].name # s[i].name}
\* last index of the run that starts at i
RunEnd(s, i) ==
    CHOOSE j \in i..Len(s) :
        /\ \A k \in i..j : s[k].name = s[i].name
        /\ j = Len(s) \/ s[j + 1].name # s[i].name
\* the one interval a run stands for: its name, its first interval's start_date,
\* its last interval's end_date
RunInterval(s, i) ==
    [name |-> s[i].name, start_date |-> s[i].start_date,
     end_date |-> s[RunEnd(s, i)].end_date]
Occurrences(s, x) == Cardinality({k \in 1..Len(s) : s[k] = x})

\* C1: when the parse of a well-formed document finishes, the output collection
\* holds as many Member records as Member elements were opened at the members-list
\* position and closed; elements nested elsewhere add none.
C1_RecordsEqualTopLevelMembers ==
    (status = "returned" /\ tok = "epilog") => Len(records_of(result)) = top_closed

\* C2: after consolidation the intervals are in ascending order of start_date.
C2_AscendingAfterConsolidation ==
    cpc = "done" =>
        \A i, j \in 1..Len(ret) : i < j => ret[i].start_date <= ret[j].start_date

\* C3: in every Member record of the output collection, no two adjacent entries
\* of parties have the same name.
C3_NoAdjacentSameName ==
    \A m \in OutputRecords :
        \A i \in 1..(Len(m.parties) - 1) : m.parties[i].name # m.parties[i + 1].name

\* C4: merge_parties replaces each maximal run of adjacent same-name intervals of
\* a list sorted by start_date with exactly one interval: the run's name, the
\* start_date of the run's first (earliest) interval and the end_date of its last
\* (latest-starting) interval.  The returned intervals are, as a multiset, the runs'
\* intervals.
C4_RunsMerged ==
    cpc = "done" =>
        \A x \in {ret[k] : k \in 1..Len(ret)}
                 \cup {RunInterval(sorted, i) : i \in RunStarts(sorted)} :
            Occurrences(ret, x)
                = Cardinality({i \in RunStarts(sorted) : RunInterval(sorted, i) = x})

\* C4's case: {A, 2001..2005} and {A, 2010..none} give {A, 2001..none}
C4_Witness ==
    /\ cpc = "done"
    /\ sorted = <<[name |-> "A", start_date |-> 978307200, end_date |-> Some(1104537600)],
                  [name |-> "A", start_date |-> 1262304000, end_date |-> None]>>
    /\ ret = <<[name |-> "A", start_date |-> 978307200, end_date |-> None]>>

\* C5: consolidation never merges across a different name: it returns as many
\* intervals as the sorted list has maximal runs of equal names, and an interval
\* whose neighbours both have other names is returned as it was.
C5_DistinctNamesKept ==
    cpc = "done" =>
        /\ Len(ret) = Cardinality(RunStarts(sorted))
        /\ \A i \in RunStarts(sorted) :
              RunEnd(sorted, i) = i => Occurrences(ret, sorted[i]) >= 1

\* C5's case: A, B, A gives three intervals
C5_Witness ==
    /\ cpc = "done"
    /\ Len(sorted) = 3
    /\ sorted[1].name = "A" /\ sorted[2].name = "B" /\ sorted[3].name = "A"
    /\ sorted[1].start_date < sorted[2].start_date
    /\ sorted[2].start_date < sorted[3].start_date
    /\ Len(ret) = 3
    /\ Occurrences(ret, sorted[1]) = 1 /\ Occurrences(ret, sorted[3]) = 1

\* C6: consolidation is idempotent: run on its own output it returns that output,
\* element for element.
C6_Idempotent == (cpc = "done" /\ round = 2) => ret = raw

\* C7: a raw list of zero or one interval comes out of consolidation as it went in.
C7_ShortListUnchanged == (cpc = "done" /\ Len(raw) < 2) => ret = raw

\* C7's case: a list of one interval has been consolidated
C7_Witness == cpc = "done" /\ round = 1 /\ Len(raw) = 1 /\ ret = raw

\* C8: when the tokenizer reports an error the parse returns no Members collection,
\* and nothing is handed to the persistence step.
C8_NoPartialResultOnError == tok = "error" => (result = None /\ committed = <<>>)

\* C9: on a well-formed document with valid Member_Id attributes and date texts,
\* no unreachable!() arm and no unwrap of an absent record is executed.
C9_NoInvariantFailure == failure \notin InvariantFailures

\* C10: a member whose Member block holds no <Addresses> block has twitter and
\* facebook absent, and the parse does not fail inside that block on one of the
\* parser's internal invariants.
C10_NoAddressesBlock ==
    blk = "no_addresses" =>
        /\ status = "parsing" =>
              /\ member # None
              /\ unwrap(member).twitter = None
              /\ unwrap(member).facebook = None
        /\ status = "panicked" => failure \notin InvariantFailures

\* A step in which an end-tag of the given name is handled and the parse goes on
EndTagStep(name) ==
    /\ status = "parsing"
    /\ status' = "parsing"
    /\ open_tags # <<>>
    /\ last(open_tags).name = name
    /\ open_tags' = pop_rest(open_tags)

\* C11: when an Address end-tag is handled, twitter becomes the scratch address text
\* only if the scratch type is exactly "Twitter", facebook only if it is exactly
\* "Facebook"; for every other type ("twitter" included) both fields keep their
\* values.
C11_ExactTypeMatch ==
    [][EndTagStep("Address") =>
          LET m == unwrap(member)
              a == unwrap(address)
              n == unwrap(member')
          IN  /\ n.twitter = IF a.addr_type = "Twitter" THEN Some(a.address)
                             ELSE m.twitter
              /\ n.facebook = IF a.addr_type = "Facebook" THEN Some(a.address)
                              ELSE m.facebook]_vars

\* C11's case: an Address block of type "twitter" has closed and set nothing
C11_Witness ==
    /\ status = "parsing"
    /\ current_element = "Addresses"
    /\ address # None
    /\ unwrap(address).addr_type = "twitter"
    /\ member # None
    /\ unwrap(member).twitter = None
    /\ unwrap(member).facebook = None

\* C12: a text event at party-start or party-end whose text is no date ends the whole
\* parse: the process panics, no Members collection is returned or committed, and
\* parsing does not go on with the interval skipped or left at its default date.
C12_BadDateAborts ==
    [][\A data \in TextsAt(current_element) :
          (/\ current_element \in {"PartyStartDate", "PartyEndDate"}
           /\ parse_datetime(data \o "Z") = None
           /\ Characters(data))
          => (status' = "panicked" /\ result' = None /\ committed' = <<>>)]_vars

\* C12's case: the parse has ended on an unparsable date text
C12_Witness == status = "panicked" /\ failure = "panic_date" /\ result = None

\* an attribute list with no Member_Id, or with one that is no non-negative integer
NoUsableMemberId(attributes) ==
    \/ ~\E i \in 1..Len(attributes) : attributes[i].name = "Member_Id"
    \/ \E i \in 1..Len(attributes) :
          attributes[i].name = "Member_Id" /\ parse_u32(attributes[i].value) = None

\* C13: a <Member> start-tag at the members-list position whose Member_Id is missing
\* or is no non-negative integer is fatal: the parse ends at that event by a panic,
\* no Members collection is returned or committed, and no later member is read.
C13_BadMemberIdAborts ==
    [][\A attributes \in AttributeLists :
          (/\ current_element = "Members"
           /\ NoUsableMemberId(attributes)
           /\ StartElement("Member", attributes))
          => (status' = "panicked" /\ result' = None /\ committed' = <<>>)]_vars

\* C13's case: the parse has ended on a Member_Id that is no number
C13_Witness ==
    status = "panicked" /\ failure = "unwrap_err_Member_Id" /\ result = None

\* C14: the in-progress member's twitter and facebook change only when an end-tag
\* named Address is handled while the position is address; an Address end-tag at any
\* other position changes neither.  (A start-tag that allocates the next member
\* record is not a change of the in-progress one.)
C14_SocialOnlyAtAddressPosition ==
    [][(/\ status = "parsing"
        /\ status' = "parsing"
        /\ member # None
        /\ member' # None
        /\ Len(open_tags') <= Len(open_tags)
        /\ \/ unwrap(member').twitter # unwrap(member).twitter
           \/ unwrap(member').facebook # unwrap(member).facebook)
       => (EndTagStep("Address") /\ current_element = "Address")]_vars

\* an element of the given name, opened at the given position, is still open
InOpen(name, at) ==
    \E i \in 1..Len(open_tags) : open_tags[i] = [name |-> name, at |-> at]

\* C15: while a <Party> opened at the member position is open (its close included)
\* the party list never changes, and a text event directly in it changes nothing but
\* the display party; while a <Party> opened at the parties-list position is open
\* the display party never changes, and the party list changes only on that
\* element's close, by exactly the scratch interval appended.
C15_PartyTagByPosition ==
    [][(status = "parsing" /\ status' = "parsing" /\ member # None /\ member' # None)
       => LET m == unwrap(member)
              n == unwrap(member')
          IN  /\ InOpen("Party", "Member") => n.parties = m.parties
              /\ (/\ open_tags # <<>>
                  /\ last(open_tags) = [name |-> "Party", at |-> "Member"]
                  /\ open_tags' = open_tags) => [n EXCEPT !.party = m.party] = m
              /\ InOpen("Party", "Parties") =>
                    /\ n.party = m.party
                    /\ n.parties =
                          IF EndTagStep("Party") /\ last(open_tags).at = "Parties"
                          THEN Append(m.parties, unwrap(party))
                          ELSE m.parties]_vars

\* C15's case: a <Party> at the member position has set the display party and a
\* <Party> at the parties-list position has closed, leaving one interval
C15_Witness ==
    /\ status = "parsing"
    /\ current_element = "Parties"
    /\ member # None
    /\ unwrap(member).party = "A"
    /\ Len(unwrap(member).parties) = 1

\* C16: while the parse runs, the position stack is as long as the elements are
\* nested deep and the position is the root one exactly at depth zero; the position
\* after an end-tag is the one that was current just before its start-tag.
C16_StackMirrorsNesting ==
    /\ [](status = "parsing" =>
             /\ Len(previous_elements) = Len(open_tags)
             /\ (current_element = "None") <=> (open_tags = <<>>))
    /\ [][\A name \in TagNames :
             EndTagStep(name) => current_element' = last(open_tags).at]_vars

\* C16's case: inside a Member block, an element below it has been opened and closed
C16_Witness ==
    /\ status = "parsing"
    /\ Len(open_tags) = 2
    /\ Len(previous_elements) = 2
    /\ current_element = "Member"
    /\ nevents >= 3

\* C17: at the position other, a start-tag of any name moves to other again, and a
\* text event changes neither the member, address and party scratch nor the output
\* collection.
C17_OtherIsAbsorbing ==
    [][(status = "parsing" /\ current_element = "Other")
       => /\ \A name \in TagNames : start_target(current_element, name) = "Other"
          /\ (status' = "parsing" /\ Len(open_tags') > Len(open_tags))
                => current_element' = "Other"
          /\ \A data \in TextsAt(current_element) :
                Characters(data) => UNCHANGED <<members, member, address, party>>]_vars

\* C17's case: an element opened at the position other is the innermost one
C17_Witness ==
    /\ status = "parsing"
    /\ current_element = "Other"
    /\ open_tags # <<>>
    /\ last(open_tags).at = "Other"

\* a step that delivers neither a start-tag nor an end-tag and lets the parse go on
MidElementStep ==
    /\ status = "parsing"
    /\ status' = "parsing"
    /\ open_tags' = open_tags

\* C18 as stated: text seen at a field position reaches the record field only when
\* the matching end-tag arrives; a text event in the middle of an element leaves the
\* member, address and party scratch as they were.
C18_TextCommittedAtEndTag ==
    [][(MidElementStep /\ current_element \in FieldPositions)
       => UNCHANGED <<member, address, party>>]_vars

\* the record field a field position stands for
FieldValue(cur) ==
    CASE cur = "Name" -> unwrap(member).name
      [] cur = "PartyName" -> unwrap(member).party
      [] cur = "Constituency" -> unwrap(member).constituency
      [] cur = "House" -> unwrap(member).house
      [] cur = "AddrType" -> unwrap(address).addr_type
      [] cur = "AddressLine1" -> unwrap(address).address
      [] cur = "PartyPartyName" -> unwrap(party).name
      [] cur = "PartyStartDate" -> unwrap(party).start_date
      [] cur = "PartyEndDate" -> unwrap(party).end_date

\* the value a text is stored as at a field position
StoredAs(cur, data) ==
    CASE cur = "House" -> IF data \in {"Commons", "Lords"} THEN data ELSE "Unknown"
      [] cur = "PartyStartDate" -> unwrap(parse_datetime(data \o "Z"))
      [] cur = "PartyEndDate" -> parse_datetime(data \o "Z")
      [] OTHER -> data

\* C18 amended: a text event at a field position writes the field in that very
\* step (the text as it is, the House variant, or the parsed date), and the
\* end-tag of a field element changes no record: it only restores the position.
C18_TextStoredByTextEvent ==
    [][/\ \A data \in TextsAt(current_element) :
             (current_element \in FieldPositions /\ Characters(data)
              /\ status' = "parsing")
             => FieldValue(current_element)' = StoredAs(current_element, data)
       /\ \A name \in TagNames :
             (EndTagStep(name) /\ current_element \in FieldPositions)
             => UNCHANGED <<members, member, address, party>>]_vars

\* C18's case: inside a still open DisplayAs element the member's name is set
C18_Witness ==
    /\ status = "parsing"
    /\ current_element = "Name"
    /\ member # None
    /\ unwrap(member).name = "A"

\* the attribute list of an element marked nil
NilTrue == <<[name |-> "nil", value |-> "true"]>>

\* C19: at the party position an <EndDate> start-tag with nil="true" makes exactly
\* the step one without the attribute makes: the position party is pushed, the
\* position becomes party-end and no record changes; its end-tag changes no record
\* either, so with no text in between the scratch end_date stays as it was (absent
\* on a fresh scratch).
C19_NilEndDateSameAsPlain ==
    [][(status = "parsing" /\ current_element = "Party")
       => /\ StartElement("EndDate", NilTrue) <=> StartElement("EndDate", <<>>)
          /\ StartElement("EndDate", NilTrue) =>
                /\ current_element' = "PartyEndDate"
                /\ previous_elements' = Append(previous_elements, "Party")
                /\ UNCHANGED <<members, member, address, party>>]_vars
    /\ [][(EndTagStep("EndDate") /\ current_element = "PartyEndDate")
          => (current_element' = "Party" /\ UNCHANGED <<members, member, address, party>>)]_vars

\* C19's case: an EndDate element is open at the party position and the scratch
\* interval has no end date
C19_Witness ==
    /\ status = "parsing"
    /\ current_element = "PartyEndDate"
    /\ last(open_tags) = [name |-> "EndDate", at |-> "Party"]
    /\ party # None
    /\ unwrap(party).end_date = None

\* a step that is one iteration of merge_parties' loop
LoopIteration == cpc = "loop" /\ iters' = iters + 1

\* what C20 says of the branches: no run takes (None, None) or (None, Some), and a
\* call on two or more intervals returns from (Some, None)
BranchesTaken ==
    /\ branch \notin {"None_None", "None_Some"}
    /\ (cpc = "done" /\ Len(sorted) >= 2) => branch = "Some_None"

\* C20 as stated: merge_parties terminates; every loop iteration reduces the
\* combined count of remaining and emitted intervals, the working list shrinking by
\* exactly one; a call on two or more intervals returns from the (Some, None)
\* branch, and the (None, Some) and (None, None) branches are never taken.
C20_CombinedCountDecreases ==
    /\ <>(cpc = "done" /\ round = 2)
    /\ []BranchesTaken
    /\ [][LoopIteration =>
             /\ Len(work') = Len(work) - 1
             /\ Len(work') + Len(out') < Len(work) + Len(out)]_vars

\* C20 amended: merge_parties terminates; every loop iteration shrinks the working
\* list by exactly one and never raises the combined count of remaining and emitted
\* intervals (an interval moved to the output leaves it the same), so a call on n >= 2
\* intervals makes exactly n iterations; it returns from the (Some, None) branch,
\* and the (None, Some) and (None, None) branches are never taken.
C20_WorkingListShrinks ==
    /\ <>(cpc = "done" /\ round = 2)
    /\ []BranchesTaken
    /\ [](cpc = "loop" => (Len(work) >= 1 /\ Len(work) = Len(sorted) - iters))
    /\ [](cpc = "done" => iters = IF Len(sorted) >= 2 THEN Len(sorted) ELSE 0)
    /\ [][LoopIteration =>
             /\ Len(work') = Len(work) - 1
             /\ Len(work') + Len(out') <= Len(work) + Len(out)]_vars

\* C20's case: a call on three intervals has returned, from the (Some, None) branch,
\* after moving an interval to the output in an earlier iteration
C20_Witness ==
    /\ cpc = "done"
    /\ Len(sorted) = 3
    /\ iters = 3
    /\ branch = "Some_None"
    /\ Len(ret) >= 2

====
